---- MODULE Spec2Model ----
(***************************************************************************)
(* Model of the forge canvas widget (modules_forge/forge_canvas/canvas.js): *)
(* the two GradioTextAreaBind channels, the overlay surface, the undo/redo  *)
(* history and the drawing gestures of ForgeCanvas.                         *)
(*                                                                          *)
(* Rasters are records [w, h, px] with px the row-major pixel sequence; an  *)
(* overlay pixel is its alpha byte, 0 (transparent) to 255 (opaque).  One    *)
(* column of the model grid is as wide as the brush, so a dab or a stroke   *)
(* through a column covers that column in every row.  Strings are sequences *)
(* of naturals: '' is << >> and a data URL is <<format, w, h>> \o px.       *)
(* The progress client of javascript/progressbar.js is modelled beside it.  *)
(***************************************************************************)
EXTENDS Integers, Sequences, FiniteSets, TLC

\* ---------------------------------------------------------------- bounds
\* longest history a run may build
MaxHist == 2
\* most points one brush gesture may collect
MaxPts == 3
\* most image decodes in flight at once
MaxPending == 1
\* how far from the container's corner a pan may take the image, in pixels
PanLimit == 20
\* most wheel zooms between two fits
MaxZooms == 2
\* the number of dabs after which a traced erase gesture takes no more samples
MaxDabs == 4
\* the brush width up to which the wheel may still change it
WidthLimit == 5
\* most gestures a run that counts them may begin
MaxStrokes == 2
MaxEvents == 4
MaxLoads == 2

\* ------------------------------------------------------------- constants
\* drawingCanvas.width / height right after construction (container size)
ClientW == 1
ClientH == 2
\* data-URL format tags
PNG == 1
JPEG == 2
\* lastErasePoint unset (undefined / null)
NoPoint == 0
\* the eraser dab diameter, in grid columns
DabDiameter == 1
\* the height of the resize handle below the image container (canvas.css)
ResizeLine == 6
\* canvas pixels per grid column: the width of a stroke of scribbleWidth 5
\* at scale 1
Cell == 100
\* the constructor's default scribbleWidth
DefaultWidth == 4
\* the constructor's default scribbleAlpha and scribbleSoftness
DefaultAlpha == 100
DefaultSoftness == 0
\* the alpha byte of an opaque pixel of an ImageData
Opaque == 255

VARIABLES
    noUpload, noScribbles, mask, gradioConfig,  \* constructor arguments / globals
    img, originalWidth, originalHeight,          \* background image
    canvas, ctx,                                 \* overlay surface and its 2d context
    history, historyIndex,
    drawing, currentTool, eraseChanged, lastErasePoint,
    tempDrawPoints, tempDrawBackground,
    imgScale, imgX, imgY,                        \* view transform
    clientWidth, clientHeight,                   \* imageContainer.clientWidth / clientHeight
    resizePending,                               \* a ResizeObserver notification is due
    dragging, resizing, offsetX, offsetY,        \* container gestures
    scribbleWidth, scribbleWidthFixed,           \* brush width and its lock
    scribbleColor, scribbleAlpha, scribbleSoftness,
    pointerInsideContainer,
    focused,                                     \* document.activeElement is in the widget
    picker,                                      \* imageInput.click() has opened the file dialog
    pendingFg,                                   \* overlay decodes in flight
    strokes,                                     \* gestures begun, where they are counted
    issued,                                      \* payloads whose decode was started, where traced
    task,                                        \* the progress client of one requestProgress call
    bg, fg,                                      \* the two binding channels
    pending,                                     \* image decodes in flight
    zooms,                                       \* wheel zooms since the last fit
    dabs,                                        \* dab centres of the erase gesture traced
    last                                         \* record of the last handler run

vars == <<noUpload, noScribbles, mask, gradioConfig, img, originalWidth,
          originalHeight, canvas, ctx, history, historyIndex, drawing,
          currentTool, eraseChanged, lastErasePoint, tempDrawPoints,
          tempDrawBackground, imgScale, imgX, imgY, clientWidth, clientHeight,
          resizePending, dragging, resizing, offsetX, offsetY, scribbleWidth,
          scribbleWidthFixed, scribbleColor, scribbleAlpha, scribbleSoftness,
          pointerInsideContainer, focused, picker, pendingFg, strokes,
          issued, task, bg, fg, pending, zooms, dabs, last>>

\* ----------------------------------------------------------- integers
Min(a, b) == IF a < b THEN a ELSE b
Max(a, b) == IF a > b THEN a ELSE b
Abs(a) == IF a < 0 THEN -a ELSE a

\* ------------------------------------------------------------ numbers
\* A JavaScript number is a fraction [n, d] in lowest terms with d > 0, or one
\* of the three values division by zero produces: Infinity = 1/0,
\* -Infinity = -1/0 and NaN = 0/0.
RECURSIVE GCD(_, _)
GCD(a, b) == IF b = 0 THEN a ELSE GCD(b, a % b)

Sgn(k) == IF k > 0 THEN 1 ELSE IF k < 0 THEN -1 ELSE 0

\* the number n / d
Ratio(n, d) ==
    IF d = 0 THEN [n |-> Sgn(n), d |-> 0]
    ELSE LET g == GCD(Abs(n), Abs(d))
         IN [n |-> (Sgn(d) * n) \div g, d |-> Abs(d) \div g]

Num(k) == [n |-> k, d |-> 1]
NaN == [n |-> 0, d |-> 0]
Infinity == [n |-> 1, d |-> 0]
IsNaN(a) == a = NaN
\* Number.isFinite
Finite(a) == a.d > 0

\* a < b (false whenever NaN is involved)
Less(a, b) ==
    \/ a.n * b.d < b.n * a.d
    \/ a.d = 0 /\ b.d = 0 /\ a.n < 0 /\ b.n > 0

\* a <= b
LessEq(a, b) == ~IsNaN(a) /\ ~IsNaN(b) /\ ~Less(b, a)

Neg(a) == [n |-> -a.n, d |-> a.d]

\* a + b
Add(a, b) ==
    IF Finite(a) /\ Finite(b) THEN Ratio(a.n * b.d + b.n * a.d, a.d * b.d)
    ELSE IF IsNaN(a) \/ IsNaN(b) THEN NaN
    ELSE IF ~Finite(a) /\ ~Finite(b) THEN (IF a = b THEN a ELSE NaN)
    ELSE IF Finite(a) THEN b ELSE a

\* a - b
Sub(a, b) == Add(a, Neg(b))

\* a * b
Mul(a, b) ==
    IF Finite(a) /\ Finite(b) THEN Ratio(a.n * b.n, a.d * b.d)
    ELSE Ratio(Sgn(a.n) * Sgn(b.n), 0)

\* a / b
Div(a, b) ==
    IF Finite(a) /\ Finite(b) THEN Ratio(a.n * b.d, a.d * b.n)
    ELSE IF Finite(a) /\ ~IsNaN(b) THEN Num(0)
    ELSE IF Finite(b) THEN Ratio(a.n * (IF b.n < 0 THEN -1 ELSE 1), 0)
    ELSE NaN

\* Math.min / Math.max of two numbers
MathMin(a, b) == IF IsNaN(a) \/ IsNaN(b) THEN NaN ELSE IF Less(b, a) THEN b ELSE a
MathMax(a, b) == IF IsNaN(a) \/ IsNaN(b) THEN NaN ELSE IF Less(a, b) THEN b ELSE a

\* ------------------------------------------------------------ rasters
\* a fully transparent w x h surface (what setting canvas.width leaves behind)
Blank(w, h) == [w |-> w, h |-> h, px |-> [i \in 1..(w * h) |-> 0]]

Col(c, i) == ((i - 1) % c.w) + 1
Row(c, i) == ((i - 1) \div c.w) + 1

\* context.getImageData(0, 0, width, height): a copy of the whole buffer
GetImageData(c) == [w |-> c.w, h |-> c.h, px |-> c.px]

\* context.putImageData(d, 0, 0): d overwrites the part of the surface it
\* covers; the surface keeps its own dimensions
PutImageData(c, d) ==
    [c EXCEPT !.px = [i \in 1..(c.w * c.h) |->
        IF Col(c, i) <= d.w /\ Row(c, i) <= d.h
        THEN d.px[(Row(c, i) - 1) * d.w + Col(c, i)]
        ELSE c.px[i]]]

\* context.clearRect(0, 0, width, height)
ClearRect(c) == Blank(c.w, c.h)

\* canvas.toDataURL('image/png')
ToDataURL(c) == <<PNG, c.w, c.h>> \o c.px

\* whether a string is a data URL an Image element can decode
Decodable(u) ==
    /\ Len(u) >= 3
    /\ u[1] \in {PNG, JPEG}
    /\ u[2] >= 1 /\ u[3] >= 1
    /\ Len(u) = 3 + u[2] * u[3]

\* the raster an Image element holds once onload has fired
Decode(u) == [w |-> u[2], h |-> u[3], px |-> SubSeq(u, 4, Len(u))]

\* what a FileReader can hand to uploadBase64: a 1x1 JPEG and a non-image
FileA == <<JPEG, 1, 1, 1>>
FileBad == <<0>>
Files == {FileA, FileBad}

\* a 2x1 JPEG (200 x 100 pixels)
FileB == <<JPEG, 2, 1, 1, 1>>
ViewFiles == {FileA, FileB}

\* values the host page may put into a bound textarea
HostValues == {<< >>, FileA}

\* ------------------------------------------------------ GradioTextAreaBind
NewBind == [target |-> << >>, previousValue |-> << >>, syncLock |-> FALSE]

\* setValue that forgets line 25 (previousValue is not brought up to date)
SetValueKeepsPrevious(b, v) ==
    IF b.syncLock THEN b
    ELSE [target |-> v, previousValue |-> b.previousValue, syncLock |-> FALSE]

\* setValue without the early return of line 21
SetValueUnguarded(b, v) ==
    [target |-> v, previousValue |-> v, syncLock |-> b.syncLock]

\* setValue(newValue): returns the channel afterwards
SetValue(b, v) ==
    IF b.syncLock THEN b
    ELSE [target |-> v, previousValue |-> v, syncLock |-> FALSE]

\* setValue that dispatches only when the value is new
InputEventsDeduped(b, v) ==
    IF b.syncLock \/ v = b.target THEN << >> ELSE <<v>>

\* the input events one setValue(newValue) call dispatches on the textarea
InputEvents(b, v) == IF b.syncLock THEN << >> ELSE <<v>>

\* the entry the last-handler record keeps of one setValue call
CallOf(name, b, v) == [ch |-> name, v |-> v, dropped |-> b.syncLock]

\* the entries it keeps of the input events dispatched on channel `name`
Tagged(name, evs) == [i \in 1..Len(evs) |-> [ch |-> name, v |-> evs[i]]]

\* the MutationObserver callback; `callback` is not bound in that scope, so
\* line 12 throws a ReferenceError with syncLock already set
Observe(b) ==
    IF b.target # b.previousValue
    THEN [b EXCEPT !.previousValue = b.target,
                   !.syncLock = TRUE]
    ELSE b

\* whether the observer gets as far as the call on line 12
ReachesCallback(b) == b.target # b.previousValue /\ ~b.syncLock

\* ------------------------------------------------------------ ForgeCanvas
\* this.img = null (an empty string is as falsy as null)
NoImg == << >>
\* tempDrawBackground before the first gesture
NoData == [w |-> 0, h |-> 0, px |-> << >>]
\* a fresh 2d context (also what resizing the canvas resets it to)
NewCtx == [gco |-> "source-over", globalAlpha |-> Num(1), strokeStyle |-> "#000000"]

\* the context once mask mode has made it ready for the brush
MaskBrushCtx(c) == [c EXCEPT !.gco = "source-over", !.strokeStyle = "pattern"]

\* the progress client before requestProgress is called
\* no message has been passed to onProgress
NoMessage == [active |-> FALSE, queued |-> FALSE, live_preview |-> FALSE, none |-> TRUE]

\* before requestProgress: ws is the socket ("none", "open", "closing" once
\* close() was called), divProgress tells whether the variable holds the
\* element, late whether inactivityTimeout has elapsed; the rest counts
\* what happened: removeChild and atEnd calls, events, onProgress calls and
\* the message of the last one; livePreview tells whether the variable holds
\* the preview element, inGallery whether the gallery has it as a child,
\* images how many images it holds and previews how many are being decoded
NoTask == [ws |-> "none", divProgress |-> FALSE, wasEverActive |-> FALSE,
           hasOnProgress |-> FALSE, late |-> FALSE,
           livePreview |-> FALSE, inGallery |-> FALSE, images |-> 0, previews |-> 0,
           atEnd |-> 0, removed |-> 0, received |-> 0, errors |-> 0,
           closes |-> 0, onProgress |-> 0, delivered |-> NoMessage]

\* the mutable fields of the widget, as one record the methods below transform
Self ==
    [img |-> img, originalWidth |-> originalWidth, originalHeight |-> originalHeight,
     canvas |-> canvas, ctx |-> ctx, history |-> history, historyIndex |-> historyIndex,
     drawing |-> drawing, currentTool |-> currentTool, eraseChanged |-> eraseChanged,
     lastErasePoint |-> lastErasePoint, tempDrawPoints |-> tempDrawPoints,
     tempDrawBackground |-> tempDrawBackground,
     imgScale |-> imgScale, imgX |-> imgX, imgY |-> imgY,
     dragging |-> dragging, resizing |-> resizing,
     offsetX |-> offsetX, offsetY |-> offsetY,
     scribbleWidth |-> scribbleWidth, zooms |-> zooms, dabs |-> dabs,
     scribbleColor |-> scribbleColor, scribbleAlpha |-> scribbleAlpha,
     scribbleSoftness |-> scribbleSoftness,
     pointerInsideContainer |-> pointerInsideContainer, focused |-> focused,
     picker |-> picker, pendingFg |-> pendingFg, strokes |-> strokes,
     issued |-> issued,
     bg |-> bg, fg |-> fg,
     calls |-> << >>, inputs |-> << >>]

\* what `last` holds after a handler that touches neither history nor channel
NoLast == [op |-> "other", hidx |-> -1, hlen |-> 0, calls |-> << >>, inputs |-> << >>]

\* the end of a handler: the fields are stored back, and `last` records the
\* handler, the history index and length it started from, its setValue calls
\* and the input events they dispatched
Commit(s, op) ==
    /\ img' = s.img
    /\ originalWidth' = s.originalWidth
    /\ originalHeight' = s.originalHeight
    /\ canvas' = s.canvas
    /\ ctx' = s.ctx
    /\ history' = s.history
    /\ historyIndex' = s.historyIndex
    /\ drawing' = s.drawing
    /\ currentTool' = s.currentTool
    /\ eraseChanged' = s.eraseChanged
    /\ lastErasePoint' = s.lastErasePoint
    /\ tempDrawPoints' = s.tempDrawPoints
    /\ tempDrawBackground' = s.tempDrawBackground
    /\ imgScale' = s.imgScale
    /\ imgX' = s.imgX
    /\ imgY' = s.imgY
    /\ dragging' = s.dragging
    /\ resizing' = s.resizing
    /\ offsetX' = s.offsetX
    /\ offsetY' = s.offsetY
    /\ scribbleWidth' = s.scribbleWidth
    /\ zooms' = s.zooms
    /\ dabs' = s.dabs
    /\ scribbleColor' = s.scribbleColor
    /\ scribbleAlpha' = s.scribbleAlpha
    /\ scribbleSoftness' = s.scribbleSoftness
    /\ pointerInsideContainer' = s.pointerInsideContainer
    /\ focused' = s.focused
    /\ picker' = s.picker
    /\ pendingFg' = s.pendingFg
    /\ strokes' = s.strokes
    /\ issued' = s.issued
    /\ bg' = s.bg
    /\ fg' = s.fg
    /\ last' = IF op = "other" THEN NoLast
               ELSE [op |-> op, hidx |-> historyIndex, hlen |-> Len(history),
                     calls |-> s.calls, inputs |-> s.inputs]
    /\ UNCHANGED <<noUpload, noScribbles, mask, gradioConfig, scribbleWidthFixed, task>>

\* onDrawingCanvasUpload()
OnDrawingCanvasUpload(s) ==
    LET v == IF s.img = NoImg THEN << >> ELSE ToDataURL(s.canvas)
    IN [s EXCEPT !.fg = SetValue(s.fg, v),
                 !.calls = Append(@, CallOf("fg", s.fg, v)),
                 !.inputs = @ \o Tagged("fg", InputEvents(s.fg, v))]

\* onImageUpload(): the image element is redrawn at its original size and
\* re-encoded as PNG
OnImageUpload(s) ==
    LET v == IF s.img = NoImg THEN << >> ELSE ToDataURL(Decode(s.img))
    IN [s EXCEPT !.bg = SetValue(s.bg, v),
                 !.calls = Append(@, CallOf("bg", s.bg, v)),
                 !.inputs = @ \o Tagged("bg", InputEvents(s.bg, v))]

\* saveState with slice(0, historyIndex): the current entry is cut off too
SaveStateShortSlice(s) ==
    OnDrawingCanvasUpload(
        [s EXCEPT !.history = Append(SubSeq(s.history, 1, s.historyIndex),
                                     GetImageData(s.canvas)),
                  !.historyIndex = s.historyIndex + 1])

\* saveState without the slice: the redo branch is kept
SaveStateNoTruncate(s) ==
    OnDrawingCanvasUpload(
        [s EXCEPT !.history = Append(s.history, GetImageData(s.canvas)),
                  !.historyIndex = s.historyIndex + 1])

\* saveState(); historyIndex is 0-based, history[k] of the code is history[k+1] here
SaveState(s) ==
    OnDrawingCanvasUpload(
        [s EXCEPT !.history = Append(SubSeq(s.history, 1, s.historyIndex + 1),
                                     GetImageData(s.canvas)),
                  !.historyIndex = s.historyIndex + 1])

\* restoreState()
RestoreState(s) ==
    OnDrawingCanvasUpload(
        [s EXCEPT !.canvas = PutImageData(s.canvas, s.history[s.historyIndex + 1])])

\* undo that clamps the index at 0 rather than returning early
UndoOpClamped(s) ==
    IF s.historyIndex >= 0
    THEN RestoreState([s EXCEPT !.historyIndex = Max(s.historyIndex - 1, 0)])
    ELSE s

\* undo()
UndoOp(s) ==
    IF s.historyIndex > 0
    THEN RestoreState([s EXCEPT !.historyIndex = s.historyIndex - 1])
    ELSE s

\* redo()
RedoOp(s) ==
    IF s.historyIndex < Len(s.history) - 1
    THEN RestoreState([s EXCEPT !.historyIndex = s.historyIndex + 1])
    ELSE s

\* x / y rounded to the nearest integer, for x >= 0 and y > 0
RoundDiv(x, y) == (2 * x + y) \div (2 * y)

\* the alpha byte of a pixel p after a source pixel of alpha q is composited
\* onto it at globalAlpha a: 'source-over' blends the source over it,
\* 'destination-out' removes the source's share of it
Blend(p, q, gco, a) ==
    IF gco = "destination-out"
    THEN RoundDiv(p * (Opaque * a.d - q * a.n), Opaque * a.d)
    ELSE RoundDiv(q * a.n * Opaque + p * (Opaque * a.d - q * a.n), Opaque * a.d)

\* context.stroke() / fill() of an opaque style over a set of columns under
\* the context's compositing mode and opacity
Composite(c, cols, gco, a) ==
    [c EXCEPT !.px = [i \in 1..(c.w * c.h) |->
        IF Col(c, i) \in cols THEN Blend(c.px[i], Opaque, gco, a) ELSE c.px[i]]]

\* context.drawImage(d, 0, 0) under the context's compositing mode and opacity
DrawImage(c, d, gco, a) ==
    [c EXCEPT !.px = [i \in 1..(c.w * c.h) |->
        IF Col(c, i) <= d.w /\ Row(c, i) <= d.h
        THEN Blend(c.px[i], d.px[(Row(c, i) - 1) * d.w + Col(c, i)], gco, a)
        ELSE c.px[i]]]

\* the columns of a surface w wide that a round-capped polyline through the
\* points covers
PathCols(pts, w) ==
    {k \in 1..w : \E i \in 1..(Len(pts) - 1) :
        Min(pts[i], pts[i + 1]) <= k /\ k <= Max(pts[i], pts[i + 1])}

\* y to the power k, y and the result in thousandths
RECURSIVE PowMille(_, _)
PowMille(y, k) == IF k = 0 THEN 1000 ELSE RoundDiv(y * PowMille(y, k - 1), 1000)

\* the k-th root of x, both in thousandths: the largest value whose k-th
\* power does not exceed x
RootMille(x, k) ==
    CHOOSE r \in 0..1000 :
        /\ PowMille(r, k) <= x
        /\ r < 1000 => PowMille(r + 1, k) > x

\* Math.round(5 + softness / 5)
SoftSteps(softness) == RoundDiv(25 + softness, 5)

\* 1 - Math.pow(1 - Math.min(alpha / 100, 0.95), 1 / steps), to three decimals
SoftAlpha(alpha, steps) ==
    LET target == MathMin(Ratio(alpha, 100), Ratio(95, 100))
        rest == (1000 * (target.d - target.n)) \div target.d
    IN Ratio(1000 - RootMille(rest, steps), 1000)

\* what the alpha, softness and colour controls can be set to
AlphaValues == {0, 50, 100}
SoftnessValues == {0, 5}
ColorValues == {"#000000", "#ff0000"}

\* the opacity of one pass of a soft stroke, for every setting of the two
\* sliders
PassAlpha ==
    [alpha \in AlphaValues |-> [softness \in SoftnessValues |->
        SoftAlpha(alpha, SoftSteps(softness))]]

\* context.stroke() called k times over the same columns
RECURSIVE StrokeTimes(_, _, _, _, _)
StrokeTimes(c, cols, gco, a, k) ==
    IF k = 0 THEN c ELSE StrokeTimes(Composite(c, cols, gco, a), cols, gco, a, k - 1)

\* handleDraw without the branch for an alpha of zero
HandleDrawNoClear(s, x) ==
    LET pts == Append(s.tempDrawPoints, x)
        base == PutImageData(s.canvas, s.tempDrawBackground)
        cols == PathCols(pts, base.w)
        t == [s EXCEPT !.tempDrawPoints = pts]
    IN IF mask
       THEN [t EXCEPT !.ctx.strokeStyle = "pattern",
                      !.canvas = Composite(base, cols, s.ctx.gco, s.ctx.globalAlpha)]
       ELSE [t EXCEPT !.ctx = [gco |-> "source-over",
                               globalAlpha |-> Ratio(Max(s.scribbleAlpha, 0), 100),
                               strokeStyle |-> s.scribbleColor],
                      !.canvas = Composite(base, cols, "source-over",
                                           Ratio(Max(s.scribbleAlpha, 0), 100))]

\* handleDraw(event) with the pointer over column x: the stroke is rendered
\* again from the snapshot taken at pointerdown
HandleDraw(s, x) ==
    LET pts == Append(s.tempDrawPoints, x)
        base == PutImageData(s.canvas, s.tempDrawBackground)
        cols == PathCols(pts, base.w)
        steps == SoftSteps(s.scribbleSoftness)
        t == [s EXCEPT !.tempDrawPoints = pts]
    IN IF mask
       THEN [t EXCEPT !.ctx.strokeStyle = "pattern",
                      !.canvas = Composite(base, cols, s.ctx.gco, s.ctx.globalAlpha)]
       ELSE IF s.scribbleAlpha <= 0
       THEN [t EXCEPT !.ctx = [gco |-> "destination-out", globalAlpha |-> Num(1),
                               strokeStyle |-> s.scribbleColor],
                      !.canvas = Composite(base, cols, "destination-out", Num(1))]
       ELSE IF s.scribbleSoftness <= 0
       THEN [t EXCEPT !.ctx = [gco |-> "source-over",
                               globalAlpha |-> Ratio(s.scribbleAlpha, 100),
                               strokeStyle |-> s.scribbleColor],
                      !.canvas = Composite(base, cols, "source-over",
                                           Ratio(s.scribbleAlpha, 100))]
       ELSE [t EXCEPT !.ctx = [gco |-> "source-over",
                               globalAlpha |-> PassAlpha[s.scribbleAlpha][s.scribbleSoftness],
                               strokeStyle |-> s.scribbleColor],
                      !.canvas = StrokeTimes(base, cols, "source-over",
                                             PassAlpha[s.scribbleAlpha][s.scribbleSoftness],
                                             steps)]

\* Math.ceil(a / b) for positive integers
CeilDiv(a, b) == (a + b - 1) \div b

\* the canvas x, in pixels, of the middle of column k
ColumnCentre(k) == ((2 * k - 1) * Cell) \div 2

\* eraserSize in canvas pixels: the brush is one column wide
EraserSize == DabDiameter * Cell

\* the centres of the dabs handleErase stamps for a sample at x when the
\* last one was at `from`, along a horizontal line: one at x if the move is
\* shorter than a quarter of the dab, else `steps` of them at
\* from + dx * i / steps for i = 0 .. steps - 1
EraseCentres(from, x, size) ==
    LET dx == x - from
        distance == Abs(dx)
    IN IF 4 * distance < size
       THEN <<Num(x)>>
       ELSE LET steps == CeilDiv(4 * distance, size)
            IN [i \in 1..steps |-> Ratio(from * steps + dx * (i - 1), steps)]

\* the columns of a surface w wide whose centre lies inside one of those dabs
DabCols(from, x, w) ==
    LET centres == EraseCentres(from, x, EraserSize)
    IN {k \in 1..w : \E i \in 1..Len(centres) :
           LET off == Sub(centres[i], Num(ColumnCentre(k)))
           IN Less(Mul(Num(2), off), Num(EraserSize))
              /\ Less(Num(-EraserSize), Mul(Num(2), off))}

\* handleErase(event) with the pointer at canvas pixel x; fillStyle is set
\* and globalAlpha is left as it is
HandleErasePx(s, x) ==
    LET from == IF s.lastErasePoint = NoPoint THEN x ELSE s.lastErasePoint
    IN [s EXCEPT !.ctx.gco = "destination-out",
                 !.canvas = Composite(s.canvas, DabCols(from, x, s.canvas.w),
                                      "destination-out", s.ctx.globalAlpha),
                 !.lastErasePoint = x,
                 !.eraseChanged = TRUE]

\* handleErase(event) with the pointer over the middle of column x
HandleErase(s, x) == HandleErasePx(s, ColumnCentre(x))

\* a pointerup handler that keeps lastErasePoint
EndGestureKeepsPoint(s) ==
    LET t == [s EXCEPT !.drawing = FALSE]
    IN IF s.eraseChanged
       THEN [SaveState(t) EXCEPT !.eraseChanged = FALSE]
       ELSE t

\* the body shared by the pointerup and pointerleave handlers of the drawing canvas
EndGesture(s) ==
    LET t == [s EXCEPT !.drawing = FALSE, !.lastErasePoint = NoPoint]
    IN IF s.eraseChanged
       THEN [SaveState(t) EXCEPT !.eraseChanged = FALSE]
       ELSE t

\* a fit that leaves 20 pixels free on every side
AdjustWithMargin20(s, cw, ch) ==
    LET scale == MathMin(Div(Num(cw - 40), Num(s.originalWidth)),
                         Div(Num(ch - 40), Num(s.originalHeight)))
    IN [s EXCEPT !.imgScale = scale,
                 !.imgX = Div(Sub(Num(cw), Mul(Num(s.originalWidth), scale)), Num(2)),
                 !.imgY = Div(Sub(Num(ch), Mul(Num(s.originalHeight), scale)), Num(2)),
                 !.zooms = 0]

\* adjustInitialPositionAndScale() in a container cw x ch
AdjustInitialPositionAndScale(s, cw, ch) ==
    LET containerWidth == Num(cw - 20)
        containerHeight == Num(ch - 20)
        scaleX == Div(containerWidth, Num(s.originalWidth))
        scaleY == Div(containerHeight, Num(s.originalHeight))
        scale == MathMin(scaleX, scaleY)
        scaledWidth == Mul(Num(s.originalWidth), scale)
        scaledHeight == Mul(Num(s.originalHeight), scale)
    IN [s EXCEPT !.imgScale = scale,
                 !.imgX = Div(Sub(Num(cw), scaledWidth), Num(2)),
                 !.imgY = Div(Sub(Num(ch), scaledHeight), Num(2)),
                 !.zooms = 0]

\* a pointerleave handler that clears the flag and takes no snapshot
LeaveGestureNoSnapshot(s) ==
    [s EXCEPT !.drawing = FALSE, !.lastErasePoint = NoPoint]

\* the body of the pointerleave handler of the drawing canvas
LeaveGesture(s) ==
    LET t == [s EXCEPT !.drawing = FALSE, !.lastErasePoint = NoPoint]
    IN IF s.eraseChanged
       THEN [SaveState(t) EXCEPT !.eraseChanged = FALSE]
       ELSE t

\* isInsideImage(x, y)
IsInsideImage(s, x, y) ==
    LET scaledWidth == Mul(Num(s.originalWidth), s.imgScale)
        scaledHeight == Mul(Num(s.originalHeight), s.imgScale)
    IN /\ Less(s.imgX, x)
       /\ Less(x, Add(s.imgX, scaledWidth))
       /\ Less(s.imgY, y)
       /\ Less(y, Add(s.imgY, scaledHeight))

\* imageContainer pointerdown with the secondary button at (x, y)
ContainerPointerDownOp(s, x, y) ==
    IF IsInsideImage(s, x, y)
    THEN [s EXCEPT !.dragging = TRUE,
                   !.offsetX = Sub(x, s.imgX),
                   !.offsetY = Sub(y, s.imgY)]
    ELSE s

\* imageContainer pointermove at (x, y)
ContainerPointerMoveOp(s, x, y) ==
    IF s.dragging
    THEN [s EXCEPT !.imgX = Sub(x, s.offsetX), !.imgY = Sub(y, s.offsetY)]
    ELSE s

\* a handleDragEnd that records the new position in the history
HandleDragEndSnapshot(s, isLeaving) == SaveState([s EXCEPT !.dragging = FALSE])

\* handleDragEnd(event, isLeaving)
HandleDragEnd(s, isLeaving) == [s EXCEPT !.dragging = FALSE]

\* imageContainer pointerup
ContainerPointerUpOp(s) == IF s.dragging THEN HandleDragEnd(s, FALSE) ELSE s

\* imageContainer pointerleave: the listener that ends a drag and the one
\* that records that the pointer is outside
ContainerPointerLeaveOp(s) ==
    [(IF s.dragging THEN HandleDragEnd(s, TRUE) ELSE s)
        EXCEPT !.pointerInsideContainer = FALSE]

\* imageContainer pointerenter
ContainerPointerEnterOp(s) == [s EXCEPT !.pointerInsideContainer = TRUE]

\* a pointerdown listener that opens the file dialog whatever noUpload says
ContainerPrimaryDownUngated(s) ==
    IF s.img = NoImg THEN [s EXCEPT !.picker = TRUE] ELSE s

\* imageContainer pointerdown with the primary button: imageInput.click()
\* when no image is loaded and uploads are allowed
ContainerPrimaryDown(s) ==
    IF s.img = NoImg /\ ~noUpload THEN [s EXCEPT !.picker = TRUE] ELSE s

\* uploadButton click
UploadButtonOp(s) == IF ~noUpload THEN [s EXCEPT !.picker = TRUE] ELSE s

\* the document keydown listener of the widget
KeyDownOp(s, ctrlKey, key) ==
    IF ctrlKey /\ key = "z" THEN UndoOp(s)
    ELSE IF ctrlKey /\ key = "y" THEN RedoOp(s)
    ELSE s

\* document pointerup / pointerleave
DocumentPointerUpOp(s) == [s EXCEPT !.resizing = FALSE]

\* the number of digits of a natural number
RECURSIVE Digits(_)
Digits(k) == IF k < 10 THEN 1 ELSE 1 + Digits(k \div 10)

RECURSIVE TenTo(_)
TenTo(k) == IF k = 0 THEN 1 ELSE 10 * TenTo(k - 1)

\* self.scribbleWidth + brushChange: a sum while scribbleWidth is a number;
\* once the slider has stored its value (a string of digits) the operator
\* concatenates, and Math.max converts the result back: '5' + 1 is '51',
\* '5' + -1 is '5-1', which is not a number
PlusBrushChange(w, c) ==
    IF ~w.str THEN Add(w.val, c)
    ELSE IF Less(c, Num(0)) THEN NaN
    ELSE Add(Mul(w.val, Num(TenTo(Digits(c.n \div c.d)))), c)

\* the ctrl branch of the wheel listener
WheelBrush(s, deltaY) ==
    LET brushChange == Ratio(-deltaY, 100)
    IN [s EXCEPT !.scribbleWidth =
           [str |-> FALSE,
            val |-> MathMax(Num(1), PlusBrushChange(s.scribbleWidth, brushChange))]]

\* a zoom that leaves the offset where it was
WheelZoomUnanchored(s, deltaY, x, y) ==
    [s EXCEPT !.imgScale = MathMax(Ratio(1, 10), Add(s.imgScale, Ratio(-deltaY, 1000))),
              !.zooms = @ + 1]

\* the zoom branch of the wheel listener, pointer at (x, y)
WheelZoom(s, deltaY, x, y) ==
    LET previousScale == s.imgScale
        zoomFactor == Ratio(-deltaY, 1000)
        scale == MathMax(Ratio(1, 10), Add(s.imgScale, zoomFactor))
        scaleRatio == Div(scale, previousScale)
    IN [s EXCEPT !.imgScale = scale,
                 !.imgX = Sub(x, Mul(Sub(x, s.imgX), scaleRatio)),
                 !.imgY = Sub(y, Mul(Sub(y, s.imgY), scaleRatio)),
                 !.zooms = @ + 1]

\* the imageContainer wheel listener
WheelOp(s, ctrlKey, deltaY, x, y) ==
    IF ctrlKey THEN WheelBrush(s, deltaY)
    ELSE IF s.img = NoImg THEN s
    ELSE WheelZoom(s, deltaY, x, y)

\* img.onload of uploadBase64(base64Data); clientWidth and clientHeight are
\* read when the handler runs
OnLoadBackground(s, u) ==
    LET d == Decode(u)
        resized == s.canvas.w # d.w \/ s.canvas.h # d.h
        t == [s EXCEPT !.img = u,
                       !.originalWidth = d.w * Cell,
                       !.originalHeight = d.h * Cell,
                       !.canvas = IF resized THEN Blank(d.w, d.h) ELSE @,
                       !.ctx = IF resized THEN NewCtx ELSE @]
    IN SaveState(OnImageUpload(
           AdjustInitialPositionAndScale(t, clientWidth, clientHeight)))

\* uploadBase64 that stores the payload as the image before it is decoded
UploadBase64OpEager(s, v) ==
    IF gradioConfig # 4 THEN s
    ELSE IF v # << >> THEN [s EXCEPT !.img = v]
    ELSE SaveState(OnImageUpload(
             AdjustInitialPositionAndScale(
                 [s EXCEPT !.img = NoImg, !.canvas = Blank(1, 1), !.ctx = NewCtx],
                 clientWidth, clientHeight)))

\* uploadBase64(base64Data) up to its return: with a payload the decode is
\* started and nothing else happens until onload; with '' the image is
\* dropped and the overlay becomes a 1 x 1 surface
UploadBase64Op(s, v) ==
    IF gradioConfig # 4 THEN s
    ELSE IF v # << >> THEN s
    ELSE SaveState(OnImageUpload(
             AdjustInitialPositionAndScale(
                 [s EXCEPT !.img = NoImg, !.canvas = Blank(1, 1), !.ctx = NewCtx],
                 clientWidth, clientHeight)))

\* uploadBase64DrawingCanvas(base64Data) up to its return
UploadBase64DrawingCanvasOp(s, v) ==
    IF v # << >> THEN [s EXCEPT !.pendingFg = Append(@, v)]
    ELSE SaveState([s EXCEPT !.canvas = ClearRect(@)])

\* img.onload of uploadBase64DrawingCanvas(base64Data)
OnLoadOverlay(s, u) ==
    SaveState([s EXCEPT !.canvas = DrawImage(ClearRect(@), Decode(u),
                                             s.ctx.gco, s.ctx.globalAlpha)])

\* resetImage()
ResetImageOp(s) ==
    SaveState(AdjustInitialPositionAndScale([s EXCEPT !.canvas = ClearRect(@)],
                                            clientWidth, clientHeight))

\* removeImage()
RemoveImageOp(s) ==
    OnImageUpload(SaveState([s EXCEPT !.img = NoImg, !.canvas = ClearRect(@)]))

\* ------------------------------------------------------------- the state
\* the fields the constructor and start() set whatever the arguments are
Constructed ==
    /\ img = NoImg
    /\ originalWidth = 0
    /\ originalHeight = 0
    /\ canvas = Blank(ClientW, ClientH)
    /\ ctx = NewCtx
    /\ history = << >>
    /\ historyIndex = -1
    /\ drawing = FALSE
    /\ currentTool = "brush"
    /\ eraseChanged = FALSE
    /\ lastErasePoint = NoPoint
    /\ tempDrawPoints = << >>
    /\ tempDrawBackground = NoData
    /\ imgScale = Num(1)
    /\ imgX = Num(0)
    /\ imgY = Num(0)
    /\ clientWidth = ClientW * Cell
    /\ clientHeight = ClientH * Cell
    /\ resizePending = TRUE            \* observe() delivers a first notification
    /\ dragging = FALSE
    /\ resizing = FALSE
    /\ offsetX = Num(0)                \* unset until the first drag starts
    /\ offsetY = Num(0)
    /\ scribbleWidth = [str |-> FALSE, val |-> Num(DefaultWidth)]
    /\ scribbleColor = "#000000"
    /\ scribbleAlpha = DefaultAlpha
    /\ scribbleSoftness = DefaultSoftness
    /\ pointerInsideContainer = FALSE
    /\ focused = FALSE
    /\ picker = FALSE
    /\ pendingFg = << >>
    /\ strokes = 0
    /\ issued = << >>
    /\ task = NoTask
    /\ bg = NewBind
    /\ fg = NewBind
    /\ pending = << >>
    /\ zooms = 0
    /\ dabs = << >>
    /\ last = NoLast

\* the state right after `new ForgeCanvas(...)` with the width left unlocked
Init ==
    /\ noUpload \in BOOLEAN
    /\ noScribbles \in BOOLEAN
    /\ mask \in BOOLEAN
    /\ gradioConfig \in {0, 3, 4}     \* no gradio_config, or its major version
    /\ scribbleWidthFixed = FALSE
    /\ Constructed

\* a handler that takes a snapshot may run while the history has room
Room == historyIndex + 1 < MaxHist

RemoveAt(q, i) == SubSeq(q, 1, i - 1) \o SubSeq(q, i + 1, Len(q))

\* ----------------------------------------------------------- the handlers
\* imageInput change / drop / paste -> handleFileUpload -> reader.onload ->
\* uploadBase64(result): the decode of a non-empty payload is started
FileUpload(f) ==
    /\ ~noUpload
    /\ gradioConfig = 4
    /\ Len(pending) < MaxPending
    /\ pending' = Append(pending, f)
    /\ Commit(Self, "other")
    /\ UNCHANGED <<clientWidth, clientHeight, resizePending>>

\* img.onload of a decode started by uploadBase64
ImageLoaded(i) ==
    /\ i \in 1..Len(pending)
    /\ Decodable(pending[i])
    /\ Room
    /\ pending' = RemoveAt(pending, i)
    /\ Commit(OnLoadBackground(Self, pending[i]), "load")
    /\ UNCHANGED <<clientWidth, clientHeight, resizePending>>

\* a decode that fails: onload never runs
ImageFailed(i) ==
    /\ i \in 1..Len(pending)
    /\ ~Decodable(pending[i])
    /\ pending' = RemoveAt(pending, i)
    /\ Commit(Self, "other")
    /\ UNCHANGED <<clientWidth, clientHeight, resizePending>>

\* resetButton click (the button is hidden with noScribbles)
ResetImage ==
    /\ ~noScribbles
    /\ Room
    /\ Commit(ResetImageOp(Self), "reset")
    /\ UNCHANGED <<pending, clientWidth, clientHeight, resizePending>>

\* removeButton click
RemoveImage ==
    /\ Room
    /\ Commit(RemoveImageOp(Self), "remove")
    /\ UNCHANGED <<pending, clientWidth, clientHeight, resizePending>>

\* undoButton click, or ctrl+z
Undo ==
    /\ Commit(UndoOp(Self), "undo")
    /\ UNCHANGED <<pending, clientWidth, clientHeight, resizePending>>

\* redoButton click, or ctrl+y
Redo ==
    /\ Commit(RedoOp(Self), "redo")
    /\ UNCHANGED <<pending, clientWidth, clientHeight, resizePending>>

\* eraserButton click
EraserToggle ==
    LET tool == IF currentTool = "eraser" THEN "brush" ELSE "eraser"
    IN /\ Commit([Self EXCEPT !.currentTool = tool,
                              !.ctx = IF mask /\ tool = "brush" THEN MaskBrushCtx(@) ELSE @],
                 "other")
       /\ UNCHANGED <<pending, clientWidth, clientHeight, resizePending>>

\* the columns a pointer event on the drawing canvas can report: the element
\* receives events inside its own box only
PointerCols == 1..canvas.w

\* a pointerdown listener that does not look at noScribbles
PointerDownAlways(x) ==
    /\ img # NoImg
    /\ LET s == [Self EXCEPT !.drawing = TRUE,
                             !.tempDrawPoints = <<x>>,
                             !.tempDrawBackground = GetImageData(canvas)]
       IN IF currentTool = "eraser"
          THEN Commit(HandleErase(s, x), "other")
          ELSE Commit(HandleDraw([s EXCEPT !.ctx = IF mask THEN MaskBrushCtx(@) ELSE @], x), "other")
    /\ UNCHANGED <<pending, clientWidth, clientHeight, resizePending>>

\* drawingCanvas pointerdown, primary button, at column x
PointerDown(x) ==
    /\ img # NoImg
    /\ ~noScribbles
    /\ LET s == [Self EXCEPT !.drawing = TRUE,
                             !.tempDrawPoints = <<x>>,
                             !.tempDrawBackground = GetImageData(canvas)]
       IN IF currentTool = "eraser"
          THEN Commit(HandleErase(s, x), "other")
          ELSE Commit(HandleDraw([s EXCEPT !.ctx = IF mask THEN MaskBrushCtx(@) ELSE @], x), "other")
    /\ UNCHANGED <<pending, clientWidth, clientHeight, resizePending>>

\* the same pointerdown where gestures are counted: a gesture begins
StrokeDown(x) ==
    /\ img # NoImg
    /\ ~noScribbles
    /\ ~drawing
    /\ strokes < MaxStrokes
    /\ LET s == [Self EXCEPT !.drawing = TRUE,
                             !.tempDrawPoints = <<x>>,
                             !.tempDrawBackground = GetImageData(canvas),
                             !.strokes = @ + 1]
       IN IF currentTool = "eraser"
          THEN Commit(HandleErase(s, x), "other")
          ELSE Commit(HandleDraw([s EXCEPT !.ctx = IF mask THEN MaskBrushCtx(@) ELSE @], x), "other")
    /\ UNCHANGED <<pending, clientWidth, clientHeight, resizePending>>

\* where the pointer can be over the image container, in pixels from the
\* container's corner
PointerXs == {Cell \div 2, Cell \div 2 + 10}
PointerYs == {Cell}
\* where the pointer can be below the image container
HandleYs == {ResizeLine}

\* the image container gets pointer and wheel events inside its box only
InContainer(x, y) == x \in 0..clientWidth /\ y \in 0..clientHeight

\* the container x of a pointer over the middle of canvas column x
CanvasX(x) == Add(imgX, Mul(Ratio((2 * x - 1) * Cell, 2), imgScale))

\* a pan may run while the image stays within PanLimit of the corner
InView(s) ==
    /\ LessEq(Num(-PanLimit), s.imgX) /\ LessEq(s.imgX, Num(PanLimit))
    /\ LessEq(Num(-PanLimit), s.imgY) /\ LessEq(s.imgY, Num(PanLimit))

\* the document pointermove listener with the pointer at height y: while
\* the handle is held the container is given that height, and the image
\* container is left what the handle does not take
DocumentPointerMoved(y) ==
    /\ clientHeight' = IF resizing THEN Max(y - ResizeLine, 0) ELSE clientHeight
    /\ resizePending' = (resizePending \/ clientHeight' # clientHeight)

\* drawingCanvas pointermove during a gesture; the event goes on to the
\* listeners of the image container and of the document
PointerMove(x) ==
    /\ drawing
    /\ currentTool # "eraser" => Len(tempDrawPoints) < MaxPts
    /\ \E y \in PointerYs :
          LET s == IF currentTool = "eraser"
                   THEN HandleErase(Self, x) ELSE HandleDraw(Self, x)
              t == ContainerPointerMoveOp(s, CanvasX(x), Num(y))
          IN /\ dragging => InView(t)
             /\ Commit(t, "other")
             /\ DocumentPointerMoved(y)
    /\ UNCHANGED <<pending, clientWidth>>

\* drawingCanvas pointerup; the event goes on to the listeners of the image
\* container and of the document
PointerUp ==
    /\ drawing
    /\ eraseChanged => Room
    /\ Commit(DocumentPointerUpOp(ContainerPointerUpOp(EndGesture(Self))), "up")
    /\ UNCHANGED <<pending, clientWidth, clientHeight, resizePending>>

\* drawingCanvas pointerleave (the event does not bubble)
PointerLeave ==
    /\ drawing
    /\ eraseChanged => Room
    /\ Commit(LeaveGesture(Self), "leave")
    /\ UNCHANGED <<pending, clientWidth, clientHeight, resizePending>>

\* pointerdown with the secondary button inside the image; the listener of
\* the drawing canvas returns at once, the one of the image container runs
ContainerPointerDown(x, y) ==
    /\ InContainer(x, y)
    /\ IsInsideImage(Self, Num(x), Num(y))
    /\ Commit(ContainerPointerDownOp(Self, Num(x), Num(y)), "other")
    /\ UNCHANGED <<pending, clientWidth, clientHeight, resizePending>>

\* pointermove over the image container with no stroke in progress
ContainerPointerMove(x, y) ==
    /\ InContainer(x, y)
    /\ ~drawing
    /\ dragging \/ resizing
    /\ LET t == ContainerPointerMoveOp(Self, Num(x), Num(y))
       IN /\ InView(t)
          /\ Commit(t, "other")
          /\ DocumentPointerMoved(y)
    /\ UNCHANGED <<pending, clientWidth>>

\* pointerup over the image container with no stroke in progress
ContainerPointerUp ==
    /\ ~drawing
    /\ dragging \/ resizing
    /\ Commit(DocumentPointerUpOp(ContainerPointerUpOp(Self)), "other")
    /\ UNCHANGED <<pending, clientWidth, clientHeight, resizePending>>

\* imageContainer pointerleave
ContainerPointerLeave ==
    /\ dragging \/ pointerInsideContainer
    /\ Commit(ContainerPointerLeaveOp(Self), "other")
    /\ UNCHANGED <<pending, clientWidth, clientHeight, resizePending>>

\* resizeLine pointerdown (propagation is stopped)
ResizeLinePointerDown ==
    /\ ~resizing
    /\ Commit([Self EXCEPT !.resizing = TRUE], "other")
    /\ UNCHANGED <<pending, clientWidth, clientHeight, resizePending>>

\* pointermove outside the image container
DocumentPointerMove(y) ==
    /\ resizing
    /\ Commit(Self, "other")
    /\ DocumentPointerMoved(y)
    /\ UNCHANGED <<pending, clientWidth>>

\* pointerup outside the image container
DocumentPointerUp ==
    /\ resizing
    /\ Commit(DocumentPointerUpOp(Self), "other")
    /\ UNCHANGED <<pending, clientWidth, clientHeight, resizePending>>

\* the ResizeObserver callback
ResizeObserved ==
    /\ resizePending
    /\ resizePending' = FALSE
    /\ Commit(AdjustInitialPositionAndScale(Self, clientWidth, clientHeight), "other")
    /\ UNCHANGED <<pending, clientWidth, clientHeight>>

\* the host page stores a value in the background textarea
HostWriteBg(v) ==
    /\ v # bg.target
    /\ Commit([Self EXCEPT !.bg.target = v], "hostbg")
    /\ UNCHANGED <<pending, clientWidth, clientHeight, resizePending>>

\* the host page stores a value in the foreground textarea
HostWriteFg(v) ==
    /\ v # fg.target
    /\ Commit([Self EXCEPT !.fg.target = v], "hostfg")
    /\ UNCHANGED <<pending, clientWidth, clientHeight, resizePending>>

\* the MutationObserver of the background channel delivers a record
ObserveBg ==
    /\ Commit([Self EXCEPT !.bg = Observe(bg)], "observebg")
    /\ UNCHANGED <<pending, clientWidth, clientHeight, resizePending>>

\* the MutationObserver of the foreground channel delivers a record
ObserveFg ==
    /\ Commit([Self EXCEPT !.fg = Observe(fg)], "observefg")
    /\ UNCHANGED <<pending, clientWidth, clientHeight, resizePending>>

\* the widget under its user: every handler of the canvas, with the two
\* textareas written by the widget alone
Next ==
    \/ \E f \in Files : FileUpload(f)
    \/ \E i \in 1..MaxPending : ImageLoaded(i)
    \/ \E i \in 1..MaxPending : ImageFailed(i)
    \/ ResetImage
    \/ RemoveImage
    \/ Undo
    \/ Redo
    \/ EraserToggle
    \/ \E x \in PointerCols : PointerDown(x)
    \/ \E x \in PointerCols : PointerMove(x)
    \/ PointerUp
    \/ PointerLeave

Spec == Init /\ [][Next]_vars

\* the binding channels under the host page: the handlers that publish, the
\* host writing into the textareas and the observers delivering records
NextBind ==
    \/ \E f \in Files : FileUpload(f)
    \/ \E i \in 1..MaxPending : ImageLoaded(i)
    \/ ResetImage
    \/ RemoveImage
    \/ Undo
    \/ Redo
    \/ \E v \in HostValues : HostWriteBg(v)
    \/ \E v \in HostValues : HostWriteFg(v)
    \/ ObserveBg
    \/ ObserveFg

SpecBind == Init /\ [][NextBind]_vars

\* the canvas pixels a traced erase gesture samples
ErasePositions == {10 * k : k \in 1..7}

\* drawingCanvas pointerdown with the eraser at canvas pixel x, the gesture
\* traced from here on
PointerDownFine(x) ==
    /\ img # NoImg
    /\ ~noScribbles
    /\ currentTool = "eraser"
    /\ ~drawing
    /\ x \in 0..(canvas.w * Cell)
    /\ LET from == IF lastErasePoint = NoPoint THEN x ELSE lastErasePoint
           s == [Self EXCEPT !.drawing = TRUE,
                             !.tempDrawPoints = <<x>>,
                             !.tempDrawBackground = GetImageData(canvas),
                             !.dabs = EraseCentres(from, x, EraserSize)]
       IN Commit(HandleErasePx(s, x), "down")
    /\ UNCHANGED <<pending, clientWidth, clientHeight, resizePending>>

\* drawingCanvas pointermove with the eraser at canvas pixel x, further along
\* the line
PointerMoveFine(x) ==
    /\ drawing
    /\ currentTool = "eraser"
    /\ dabs # << >>
    /\ Len(dabs) < MaxDabs
    /\ x >= lastErasePoint
    /\ x \in 0..(canvas.w * Cell)
    /\ LET s == [Self EXCEPT !.dabs = @ \o EraseCentres(lastErasePoint, x, EraserSize)]
       IN Commit(HandleErasePx(s, x), "other")
    /\ UNCHANGED <<pending, clientWidth, clientHeight, resizePending>>

\* the end of a traced erase gesture
PointerUpFine ==
    /\ drawing
    /\ dabs # << >>
    /\ Room
    /\ Commit([DocumentPointerUpOp(ContainerPointerUpOp(EndGesture(Self)))
                   EXCEPT !.dabs = << >>], "up")
    /\ UNCHANGED <<pending, clientWidth, clientHeight, resizePending>>

\* centerButton click
Center ==
    /\ Commit(AdjustInitialPositionAndScale(Self, clientWidth, clientHeight), "center")
    /\ UNCHANGED <<pending, clientWidth, clientHeight, resizePending>>

\* the layout gives the image container another size (window resize,
\* maximize, minimize); the ResizeObserver will be notified
ContainerSized(w, h) ==
    /\ <<w, h>> # <<clientWidth, clientHeight>>
    /\ clientWidth' = w
    /\ clientHeight' = h
    /\ resizePending' = TRUE
    /\ Commit(Self, "other")
    /\ UNCHANGED pending

\* the sizes the layout may give the image container
ContainerSizes ==
    {<<0, 0>>, <<Cell \div 2, 2 * Cell>>, <<ClientW * Cell, ClientH * Cell>>,
     <<4 * Cell, 4 * Cell>>}

\* event.deltaY of one notch of the wheel, either way
WheelDeltas == {-100, 100}

\* imageContainer wheel
Wheel(ctrlKey, deltaY, x, y) ==
    /\ InContainer(x, y)
    /\ ctrlKey => LessEq(scribbleWidth.val, Num(WidthLimit))
    /\ (~ctrlKey /\ img # NoImg) => zooms < MaxZooms
    /\ Commit(WheelOp(Self, ctrlKey, deltaY, Num(x), Num(y)),
              IF ctrlKey THEN "wheelctrl" ELSE "wheel")
    /\ UNCHANGED <<pending, clientWidth, clientHeight, resizePending>>

\* what the width slider can be set to
SliderValues == {3}

\* input event of the width slider (the block is hidden when the width is
\* fixed or drawing is off); this.value is a string
WidthInput(v) ==
    /\ ~scribbleWidthFixed
    /\ ~noScribbles
    /\ scribbleWidth # [str |-> TRUE, val |-> Num(v)]
    /\ Commit([Self EXCEPT !.scribbleWidth = [str |-> TRUE, val |-> Num(v)]], "other")
    /\ UNCHANGED <<pending, clientWidth, clientHeight, resizePending>>

\* input event of the alpha slider
AlphaInput(v) ==
    /\ ~noScribbles
    /\ scribbleAlpha # v
    /\ Commit([Self EXCEPT !.scribbleAlpha = v], "other")
    /\ UNCHANGED <<pending, clientWidth, clientHeight, resizePending>>

\* input event of the softness slider
SoftnessInput(v) ==
    /\ ~noScribbles
    /\ scribbleSoftness # v
    /\ Commit([Self EXCEPT !.scribbleSoftness = v], "other")
    /\ UNCHANGED <<pending, clientWidth, clientHeight, resizePending>>

\* input event of the colour picker
ColorInput(v) ==
    /\ ~noScribbles
    /\ scribbleColor # v
    /\ Commit([Self EXCEPT !.scribbleColor = v], "other")
    /\ UNCHANGED <<pending, clientWidth, clientHeight, resizePending>>

\* a widget that accepts uploads and drawing
InitView ==
    /\ noUpload = FALSE
    /\ noScribbles = FALSE
    /\ mask = FALSE
    /\ gradioConfig = 4
    /\ scribbleWidthFixed = FALSE
    /\ Constructed

\* imageContainer pointerenter
ContainerPointerEnter ==
    /\ ~pointerInsideContainer
    /\ Commit(ContainerPointerEnterOp(Self), "other")
    /\ UNCHANGED <<pending, clientWidth, clientHeight, resizePending>>

\* an element of the widget takes the keyboard focus
Focus ==
    /\ ~focused
    /\ Commit([Self EXCEPT !.focused = TRUE], "other")
    /\ UNCHANGED <<pending, clientWidth, clientHeight, resizePending>>

\* the focus goes to an element outside the widget
Blur ==
    /\ focused
    /\ Commit([Self EXCEPT !.focused = FALSE], "other")
    /\ UNCHANGED <<pending, clientWidth, clientHeight, resizePending>>

\* keydown anywhere in the document
KeyDown(ctrlKey, key) ==
    /\ Commit(KeyDownOp(Self, ctrlKey, key), "key")
    /\ UNCHANGED <<pending, clientWidth, clientHeight, resizePending>>

\* handleFileUpload(file) and the FileReader behind it: uploadBase64 is
\* called with the file's data URL and starts the decode
HandleFileUpload(f) ==
    /\ (~noUpload /\ gradioConfig = 4) => Len(pending) < MaxPending
    /\ pending' = IF ~noUpload /\ gradioConfig = 4 THEN Append(pending, f) ELSE pending

\* change event of the file input: the dialog is closed with a file chosen
InputChange(f) ==
    /\ HandleFileUpload(f)
    /\ Commit([Self EXCEPT !.picker = FALSE], "change")
    /\ UNCHANGED <<clientWidth, clientHeight, resizePending>>

\* a file is dropped on the image container
Drop(f) ==
    /\ HandleFileUpload(f)
    /\ Commit(Self, "drop")
    /\ UNCHANGED <<clientWidth, clientHeight, resizePending>>

\* paste of an image anywhere in the document
Paste(f) ==
    /\ IF pointerInsideContainer THEN HandleFileUpload(f) ELSE UNCHANGED pending
    /\ Commit(Self, "paste")
    /\ UNCHANGED <<clientWidth, clientHeight, resizePending>>

\* uploadButton click
UploadButtonClick ==
    /\ Commit(UploadButtonOp(Self), "uploadbutton")
    /\ UNCHANGED <<pending, clientWidth, clientHeight, resizePending>>

\* pointerdown with the primary button on the image container, outside the
\* image or with none loaded: the listener of the drawing canvas, if it is
\* the target, returns at once
ContainerPrimaryPointerDown(x, y) ==
    /\ InContainer(x, y)
    /\ img = NoImg \/ ~IsInsideImage(Self, Num(x), Num(y))
    /\ Commit(ContainerPrimaryDown(Self), "containerdown")
    /\ UNCHANGED <<pending, clientWidth, clientHeight, resizePending>>

\* a widget with uploads allowed or not
InitPage ==
    /\ noUpload \in BOOLEAN
    /\ noScribbles = FALSE
    /\ mask = FALSE
    /\ gradioConfig = 4
    /\ scribbleWidthFixed = FALSE
    /\ Constructed

\* the keys that are pressed
Keys == {"z", "y", "a"}

\* the widget in its page: the ways a file can come in, the keyboard, the
\* focus and the pointer entering and leaving, with the buttons and
\* gestures that build a history; pointer events reach the widget while the
\* pointer is over it
NextPage ==
    \/ \E f \in Files : InputChange(f)
    \/ \E f \in Files : pointerInsideContainer /\ Drop(f)
    \/ \E f \in Files : Paste(f)
    \/ UploadButtonClick
    \/ \E x \in PointerXs, y \in PointerYs :
          pointerInsideContainer /\ ContainerPrimaryPointerDown(x, y)
    \/ \E i \in 1..MaxPending : ImageLoaded(i)
    \/ \E i \in 1..MaxPending : ImageFailed(i)
    \/ ContainerPointerEnter
    \/ ContainerPointerLeave
    \/ Focus
    \/ Blur
    \/ \E c \in BOOLEAN, k \in Keys : KeyDown(c, k)
    \/ ResetImage
    \/ \E x \in PointerCols : pointerInsideContainer /\ StrokeDown(x)
    \/ pointerInsideContainer /\ PointerUp

SpecPage == InitPage /\ [][NextPage]_vars

\* the variables of the widget, which the progress client does not touch
widgetVars == <<noUpload, noScribbles, mask, gradioConfig, img, originalWidth,
                originalHeight, canvas, ctx, history, historyIndex, drawing,
                currentTool, eraseChanged, lastErasePoint, tempDrawPoints,
                tempDrawBackground, imgScale, imgX, imgY, clientWidth,
                clientHeight, resizePending, dragging, resizing, offsetX,
                offsetY, scribbleWidth, scribbleWidthFixed, scribbleColor,
                scribbleAlpha, scribbleSoftness, pointerInsideContainer,
                focused, picker, pendingFg, strokes, issued, bg, fg, pending, zooms,
                dabs, last>>

\* removeProgressBar that does not look at divProgress
RemoveProgressBarUnguarded(t) ==
    [t EXCEPT !.removed = @ + 1, !.atEnd = @ + 1, !.divProgress = FALSE,
              !.inGallery = @ /\ ~t.livePreview]

\* removeProgressBar()
RemoveProgressBar(t) ==
    IF ~t.divProgress THEN t
    ELSE [t EXCEPT !.removed = @ + 1, !.atEnd = @ + 1, !.divProgress = FALSE,
                   !.inGallery = @ /\ ~t.livePreview]

\* ws.close()
WsCloseCall(t) == [t EXCEPT !.ws = "closing"]

\* ws.onmessage with the parsed message res, late telling whether
\* elapsedFromStart > inactivityTimeout
OnMessage(t, res, late) ==
    LET t1 == [t EXCEPT !.received = @ + 1, !.late = late,
                        !.wasEverActive = @ \/ res.active]
    IN  IF ~res.active /\ t1.wasEverActive THEN RemoveProgressBar(WsCloseCall(t1))
        ELSE IF late /\ ~res.queued /\ ~res.active THEN RemoveProgressBar(WsCloseCall(t1))
        ELSE LET t2 == IF t1.hasOnProgress
                       THEN [t1 EXCEPT !.onProgress = @ + 1, !.delivered = res]
                       ELSE t1
             IN IF res.live_preview THEN [t2 EXCEPT !.previews = @ + 1] ELSE t2

\* img.onload of a live preview: the element is created and put into the
\* gallery if the variable holds none, the image is appended and the oldest
\* removed when there are more than two
PreviewOnLoad(t) ==
    LET t1 == IF ~t.livePreview
              THEN [t EXCEPT !.livePreview = TRUE, !.inGallery = TRUE]
              ELSE t
        n == t1.images + 1
    IN [t1 EXCEPT !.images = IF n > 2 THEN n - 1 ELSE n]

\* the progress messages of the server
Messages == [active : BOOLEAN, queued : BOOLEAN, live_preview : BOOLEAN, none : {FALSE}]

\* requestProgress(id_task, progressbarContainer, gallery, atEnd, onProgress), with
\* a gallery and with or without an onProgress callback
RequestProgress(h) ==
    /\ task.ws = "none"
    /\ task' = [NoTask EXCEPT !.ws = "open", !.divProgress = TRUE, !.hasOnProgress = h]
    /\ UNCHANGED widgetVars

\* a message event of the socket; the clock only moves forward
WsMessage(res, late) ==
    /\ task.ws # "none"
    /\ task.received + task.errors + task.closes < MaxEvents
    /\ task.late => late
    /\ task' = OnMessage(task, res, late)
    /\ UNCHANGED widgetVars

\* the decode of a live preview completes
PreviewLoaded ==
    /\ task.previews > 0
    /\ task' = [PreviewOnLoad(task) EXCEPT !.previews = @ - 1]
    /\ UNCHANGED widgetVars

\* an error event of the socket
WsError ==
    /\ task.ws # "none"
    /\ task.received + task.errors + task.closes < MaxEvents
    /\ task' = [RemoveProgressBar(WsCloseCall(task)) EXCEPT !.errors = @ + 1]
    /\ UNCHANGED widgetVars

\* a close event of the socket
WsClose ==
    /\ task.ws # "none"
    /\ task.received + task.errors + task.closes < MaxEvents
    /\ task' = [RemoveProgressBar(task) EXCEPT !.closes = @ + 1]
    /\ UNCHANGED widgetVars

\* one requestProgress call and the events of its socket, in every order
NextProgress ==
    \/ \E h \in BOOLEAN : RequestProgress(h)
    \/ \E res \in Messages, late \in BOOLEAN : WsMessage(res, late)
    \/ PreviewLoaded
    \/ WsError
    \/ WsClose

SpecProgress == InitView /\ [][NextProgress]_vars

\* the payloads of the loads that are traced
LoadPayloads == {FileA, FileB, FileBad}

\* uploadBase64(v) with a non-empty payload, from the FileReader of
\* handleFileUpload or from the host: a new Image starts to decode it
UploadBase64Issued(v) ==
    /\ gradioConfig = 4
    /\ Len(issued) < MaxLoads
    /\ pending' = Append(pending, v)
    /\ Commit([UploadBase64Op(Self, v) EXCEPT !.issued = Append(@, v)], "other")
    /\ UNCHANGED <<clientWidth, clientHeight, resizePending>>

\* loads issued one after the other, their decodes completing or failing in
\* any order, around gestures on the overlay
NextLoad ==
    \/ \E v \in LoadPayloads : UploadBase64Issued(v)
    \/ \E i \in 1..MaxLoads : ImageLoaded(i)
    \/ \E i \in 1..MaxLoads : ImageFailed(i)
    \/ ~drawing /\ EraserToggle
    \/ \E x \in PointerCols : StrokeDown(x)
    \/ PointerUp

SpecLoad == InitView /\ [][NextLoad]_vars

\* an opaque 1x1 PNG, as the host hands it over for the overlay
OverlayA == <<PNG, 1, 1, Opaque>>
\* what the host can hand to the two upload methods
BackgroundPayloads == {<< >>, FileA, FileBad}
OverlayPayloads == {<< >>, OverlayA, FileBad}

\* uploadBase64(v), as the listener of the background binding calls it
UploadBase64(v) ==
    /\ (gradioConfig = 4 /\ v # << >>) => Len(pending) < MaxPending
    /\ (gradioConfig = 4 /\ v = << >>) => Room
    /\ pending' = IF gradioConfig = 4 /\ v # << >> THEN Append(pending, v) ELSE pending
    /\ Commit(UploadBase64Op(Self, v), IF v = << >> THEN "loadempty" ELSE "other")
    /\ UNCHANGED <<clientWidth, clientHeight, resizePending>>

\* uploadBase64DrawingCanvas(v), as the listener of the foreground binding
\* calls it
UploadBase64DrawingCanvas(v) ==
    /\ v # << >> => Len(pendingFg) < MaxPending
    /\ v = << >> => Room
    /\ Commit(UploadBase64DrawingCanvasOp(Self, v),
              IF v = << >> THEN "overlayempty" ELSE "other")
    /\ UNCHANGED <<pending, clientWidth, clientHeight, resizePending>>

\* img.onload of a decode started by uploadBase64DrawingCanvas
OverlayLoaded(i) ==
    /\ i \in 1..Len(pendingFg)
    /\ Decodable(pendingFg[i])
    /\ Room
    /\ Commit(OnLoadOverlay([Self EXCEPT !.pendingFg = RemoveAt(@, i)], pendingFg[i]),
              "overlay")
    /\ UNCHANGED <<pending, clientWidth, clientHeight, resizePending>>

\* an overlay decode that fails: onload never runs
OverlayFailed(i) ==
    /\ i \in 1..Len(pendingFg)
    /\ ~Decodable(pendingFg[i])
    /\ Commit([Self EXCEPT !.pendingFg = RemoveAt(@, i)], "other")
    /\ UNCHANGED <<pending, clientWidth, clientHeight, resizePending>>

\* the two upload methods under the payloads a host can deliver, between
\* the buttons and single-dab gestures that leave the context in every mode
NextPayload ==
    \/ \E v \in BackgroundPayloads : UploadBase64(v)
    \/ \E i \in 1..MaxPending : ImageLoaded(i)
    \/ \E i \in 1..MaxPending : ImageFailed(i)
    \/ \E v \in OverlayPayloads : UploadBase64DrawingCanvas(v)
    \/ \E i \in 1..MaxPending : OverlayLoaded(i)
    \/ \E i \in 1..MaxPending : OverlayFailed(i)
    \/ RemoveImage
    \/ ResetImage
    \/ ~drawing /\ EraserToggle
    \/ \E x \in PointerCols : StrokeDown(x)
    \/ PointerUp

SpecPayload == InitView /\ [][NextPayload]_vars

\* a widget that accepts uploads and drawing, in mask mode or not
InitAlpha ==
    /\ noUpload = FALSE
    /\ noScribbles = FALSE
    /\ mask \in BOOLEAN
    /\ gradioConfig = 4
    /\ scribbleWidthFixed = FALSE
    /\ Constructed

\* brush and eraser gestures over a loaded image under every setting of the
\* alpha, softness and colour controls; the controls are used between
\* gestures, and an erase gesture is one dab
NextAlpha ==
    \/ FileUpload(FileA)
    \/ \E i \in 1..MaxPending : ImageLoaded(i)
    \/ ~drawing /\ EraserToggle
    \/ \E v \in AlphaValues : ~drawing /\ AlphaInput(v)
    \/ \E v \in SoftnessValues : ~drawing /\ SoftnessInput(v)
    \/ \E v \in ColorValues : ~drawing /\ ColorInput(v)
    \/ \E x \in PointerCols : StrokeDown(x)
    \/ \E x \in PointerCols : currentTool = "brush" /\ PointerMove(x)
    \/ PointerUp

SpecAlpha == InitAlpha /\ [][NextAlpha]_vars

\* the view transform under loads, resizes, the center and reset buttons
\* and the wheel
NextView ==
    \/ \E f \in ViewFiles : FileUpload(f)
    \/ \E i \in 1..MaxPending : ImageLoaded(i)
    \/ ResetImage
    \/ Center
    \/ \E z \in ContainerSizes : ContainerSized(z[1], z[2])
    \/ ResizeObserved
    \/ \E d \in WheelDeltas, x \in PointerXs, y \in PointerYs :
          Wheel(FALSE, d, x, y)

SpecView == InitView /\ [][NextView]_vars

\* a widget that accepts uploads and drawing, the width locked or not
InitBrush ==
    /\ noUpload = FALSE
    /\ noScribbles = FALSE
    /\ mask = FALSE
    /\ gradioConfig = 4
    /\ scribbleWidthFixed \in BOOLEAN
    /\ Constructed

\* what the user can do to the brush width and around it: the wheel with and
\* without ctrl over the middle of the container, the slider and the undo
\* shortcut, on a widget with or without an image
NextBrush ==
    \/ FileUpload(FileA)
    \/ \E i \in 1..MaxPending : ImageLoaded(i)
    \/ RemoveImage
    \/ Undo
    \/ \E c \in BOOLEAN, d \in WheelDeltas : Wheel(c, d, Cell \div 2, Cell)
    \/ \E v \in SliderValues : WidthInput(v)

SpecBrush == InitBrush /\ [][NextBrush]_vars

\* erase gestures sampled pixel by pixel along a horizontal line over a
\* loaded image
NextErase ==
    \/ FileUpload(FileA)
    \/ \E i \in 1..MaxPending : ImageLoaded(i)
    \/ EraserToggle
    \/ \E x \in ErasePositions : PointerDownFine(x)
    \/ \E x \in ErasePositions : PointerMoveFine(x)
    \/ PointerUpFine
    \/ PointerLeave

SpecErase == InitView /\ [][NextErase]_vars

\* a widget that accepts uploads, with or without drawing
InitGesture ==
    /\ noUpload = FALSE
    /\ noScribbles \in BOOLEAN
    /\ mask = FALSE
    /\ gradioConfig = 4
    /\ scribbleWidthFixed = FALSE
    /\ Constructed

\* the pointer listeners of the drawing canvas, the image container, the
\* resize handle and the document, around a background that comes and goes
NextGesture ==
    \/ FileUpload(FileA)
    \/ \E i \in 1..MaxPending : ImageLoaded(i)
    \/ RemoveImage
    \/ EraserToggle
    \/ \E x \in PointerCols : PointerDown(x)
    \/ \E x \in PointerCols : PointerMove(x)
    \/ PointerUp
    \/ PointerLeave
    \/ \E x \in PointerXs, y \in PointerYs : ContainerPointerDown(x, y)
    \/ \E x \in PointerXs, y \in PointerYs : ContainerPointerMove(x, y)
    \/ ContainerPointerUp
    \/ ContainerPointerLeave
    \/ ResizeLinePointerDown
    \/ \E y \in HandleYs : DocumentPointerMove(y)
    \/ DocumentPointerUp

SpecGesture == InitGesture /\ [][NextGesture]_vars

\* ============================================================== claims
\* the channel of that name
Chan(name) == IF name = "bg" THEN bg ELSE fg

\* the channel of that name after the step
ChanNext(name) == IF name = "bg" THEN bg' ELSE fg'

\* the input events of a handler record that went to one channel
InputsOn(l, name) == SelectSeq(l.inputs, LAMBDA e : e.ch = name)

\* a step of a handler that calls saveState
SnapshotStep ==
    \/ ResetImage
    \/ RemoveImage
    \/ \E i \in 1..MaxPending : ImageLoaded(i)
    \/ (PointerUp \/ PointerLeave) /\ eraseChanged

\* C1: while the history is empty historyIndex is -1, and whenever it is not
\* empty 0 <= historyIndex < history.length
C1_HistoryIndexInvariant ==
    IF history = << >>
    THEN historyIndex = -1
    ELSE 0 <= historyIndex /\ historyIndex < Len(history)

\* an undo took the index from the last entry down to an earlier one
C1_Witness ==
    /\ last.op = "undo"
    /\ last.hidx = last.hlen - 1
    /\ historyIndex = last.hidx - 1
    /\ Len(history) >= 2

\* C2: a snapshot taken at index i < length-1 discards every entry after i,
\* stores the new snapshot at i+1, leaves historyIndex = i+1 = length-1, and a
\* redo right after it changes nothing
C2_BranchTruncation ==
    [][(SnapshotStep /\ historyIndex < Len(history) - 1) =>
        /\ history' = Append(SubSeq(history, 1, historyIndex + 1), canvas')
        /\ historyIndex' = historyIndex + 1
        /\ historyIndex' = Len(history') - 1
        /\ RedoOp(Self') = Self']_vars

\* a snapshot has just been taken from an index below the end of the history
C2_Witness ==
    /\ last.op \in {"load", "reset", "remove", "up", "leave"}
    /\ last.hidx >= 0
    /\ last.hidx < last.hlen - 1
    /\ historyIndex = last.hidx + 1
    /\ Len(history) = historyIndex + 1

RECURSIVE UndoTimes(_, _)
\* undo() called k times
UndoTimes(s, k) == IF k = 0 THEN s ELSE UndoTimes(UndoOp(s), k - 1)

RECURSIVE RedoTimes(_, _)
\* redo() called k times
RedoTimes(s, k) == IF k = 0 THEN s ELSE RedoTimes(RedoOp(s), k - 1)

\* C3: with the index at the newest of n snapshots and no gesture in progress,
\* k undos followed by k redos (k <= n) leave historyIndex and the overlay
\* surface (pixels and dimensions) as they were
C3_UndoRedoRoundTrip ==
    (~drawing /\ historyIndex = Len(history) - 1) =>
        \A k \in 0..Len(history) :
            LET r == RedoTimes(UndoTimes(Self, k), k)
            IN r.historyIndex = historyIndex /\ r.canvas = canvas

\* C4: undo with historyIndex <= 0 and redo with historyIndex >= length-1
\* change neither the history, the index, the overlay nor the two fields
C4_BoundaryNoOp ==
    [][((Undo /\ historyIndex <= 0) \/ (Redo /\ historyIndex >= Len(history) - 1)) =>
        UNCHANGED <<history, historyIndex, canvas, bg, fg>>]_vars

\* undo has just been called at index 0 of a history whose snapshot differs
\* from the overlay
C4_Witness ==
    /\ last.op = "undo"
    /\ last.hidx = 0
    /\ Len(history) >= 1
    /\ canvas # history[1]

\* C5: a gesture that ends (pointerup or pointerleave) after changing overlay
\* pixels takes exactly one snapshot, of the overlay as the gesture left it
C5_SnapshotOnGestureEnd ==
    [][((PointerUp \/ PointerLeave) /\ canvas # tempDrawBackground) =>
        /\ history' = Append(SubSeq(history, 1, historyIndex + 1), canvas)
        /\ historyIndex' = historyIndex + 1]_vars

\* C6: with no gesture in progress the foreground field holds the serialized
\* overlay when an image is loaded and '' when none is
C6_ForegroundConsistent ==
    ~drawing => fg.target = (IF img = NoImg THEN << >> ELSE ToDataURL(canvas))

\* C7: when the observer finds a value in the background field that the
\* channel did not write, the value reaches uploadBase64, which starts its decode
C7_ExternalChangeDelivered ==
    [][(ObserveBg /\ ReachesCallback(bg) /\ bg.target # << >> /\ gradioConfig = 4) =>
        pending' = Append(pending, bg.target)]_vars

\* C8: after a handler has called setValue(v) on a channel, the observer of
\* that channel does not get to its callback with v
C8_NoEcho ==
    \A i \in 1..Len(last.calls) :
        ~(/\ ReachesCallback(Chan(last.calls[i].ch))
          /\ Chan(last.calls[i].ch).target = last.calls[i].v)

\* a handler has just written a data URL into a field through setValue
C8_Witness ==
    \E i \in 1..Len(last.calls) :
        /\ ~last.calls[i].dropped
        /\ last.calls[i].v # << >>
        /\ Chan(last.calls[i].ch).target = last.calls[i].v

\* a handler that calls setValue('') on the channel right after a handler
\* whose setValue('') on it went through
RepeatedEmptyPublish(name) ==
    /\ \E i \in 1..Len(last.calls) :
          last.calls[i] = [ch |-> name, v |-> << >>, dropped |-> FALSE]
    /\ \E i \in 1..Len(last'.calls) :
          last'.calls[i].ch = name /\ last'.calls[i].v = << >>

\* C9 as stated: the second of two setValue('') calls in a row leaves the
\* field as it is and dispatches no input event
C9_PublishIdempotent ==
    [][\A name \in {"bg", "fg"} : RepeatedEmptyPublish(name) =>
        /\ ChanNext(name) = Chan(name)
        /\ InputsOn(last', name) = << >>]_vars

\* C9 as amended: the second of two setValue('') calls in a row leaves the
\* field and previousValue '' and dispatches one more input event carrying ''
C9_RepublishDispatchesAgain ==
    [][\A name \in {"bg", "fg"} : RepeatedEmptyPublish(name) =>
        /\ ChanNext(name) = Chan(name)
        /\ ChanNext(name).target = << >>
        /\ InputsOn(last', name) = <<[ch |-> name, v |-> << >>]>>]_vars

\* reset has run twice with no image ever loaded: both snapshots have the
\* size of the fresh canvas, and each reset published ''
C9_Witness ==
    /\ last.op = "reset"
    /\ last.hidx = 0
    /\ historyIndex = 1
    /\ img = NoImg
    /\ \A i \in 1..2 : history[i] = Blank(ClientW, ClientH)
    /\ last.calls = <<[ch |-> "fg", v |-> << >>, dropped |-> FALSE]>>

\* C10: a setValue call made while syncLock is held changes nothing of the
\* channel and dispatches no input event, and no later step brings its value
\* into the field: a field changes only by a host write or by a setValue call
\* of the same step that was not dropped
C10_GuardedWriteDropped ==
    [][/\ \A i \in 1..Len(last'.calls) : last'.calls[i].dropped =>
            /\ ChanNext(last'.calls[i].ch) = Chan(last'.calls[i].ch)
            /\ InputsOn(last', last'.calls[i].ch) = << >>
       /\ \A name \in {"bg", "fg"} : ChanNext(name).target # Chan(name).target =>
            \/ last'.op = "host" \o name
            \/ \E i \in 1..Len(last'.calls) :
                  last'.calls[i] = [ch |-> name, v |-> ChanNext(name).target,
                                    dropped |-> FALSE]]_vars

\* a handler has just called setValue with a value the field does not hold,
\* and the call was dropped
C10_Witness ==
    \E i \in 1..Len(last.calls) :
        /\ last.calls[i].dropped
        /\ last.calls[i].v # Chan(last.calls[i].ch).target

\* C11: at most one of the flags dragging, drawing and resizing is true
C11_GestureExclusive ==
    /\ ~(dragging /\ drawing)
    /\ ~(dragging /\ resizing)
    /\ ~(drawing /\ resizing)

\* the fields of the widget after a step are those of the record s
Becomes(s) == Self' = [s EXCEPT !.calls = << >>, !.inputs = << >>]

PointerStep ==
    \/ \E x \in PointerCols : PointerDown(x) \/ PointerMove(x)
    \/ PointerUp
    \/ PointerLeave
    \/ \E x \in PointerXs, y \in PointerYs :
          ContainerPointerDown(x, y) \/ ContainerPointerMove(x, y)
    \/ ContainerPointerUp
    \/ ContainerPointerLeave
    \/ ResizeLinePointerDown
    \/ \E y \in HandleYs : DocumentPointerMove(y)
    \/ DocumentPointerUp

\* drawing becomes true only by a primary-button pointerdown on the drawing
\* canvas while an image is loaded and noScribbles is not set
DrawingEntry ==
    (drawing' /\ ~drawing) =>
        /\ img # NoImg
        /\ ~noScribbles
        /\ \E x \in PointerCols : PointerDown(x)

\* C13 as stated: drawing becomes true only by such a pointerdown, and with
\* noScribbles set or no image loaded no pointer event sets drawing or
\* changes the overlay
C13_DrawingEntry ==
    [][/\ DrawingEntry
       /\ (PointerStep /\ (noScribbles \/ img = NoImg)) =>
             (drawing' => drawing) /\ canvas' = canvas]_vars

\* C13 as amended: drawing becomes true only by such a pointerdown; with
\* noScribbles set, or with no image loaded and no stroke in progress, no
\* pointer event sets drawing or changes the overlay
C13_DrawingEntryFromIdle ==
    [][/\ DrawingEntry
       /\ (PointerStep /\ (noScribbles \/ (img = NoImg /\ ~drawing))) =>
             ~drawing' /\ canvas' = canvas]_vars

\* a drag has been started by a pointerdown while no image is loaded, and
\* the overlay is still the one the removal cleared
C13_Witness ==
    /\ img = NoImg
    /\ dragging
    /\ ~drawing
    /\ canvas = ClearRect(canvas)
    /\ historyIndex >= 1

\* C14: imgScale is a finite number and at least 0.1
C14_ScaleInvariant == Finite(imgScale) /\ LessEq(Ratio(1, 10), imgScale)

\* a step that ends with the fit computed from the current image size
RefitStep == ResetImage \/ Center \/ ResizeObserved

\* a step that runs the fit
FitStep == RefitStep \/ \E i \in 1..MaxPending : ImageLoaded(i)

\* C15: a fit invoked with an image width or height of zero or a container
\* dimension of zero divides nothing by zero and leaves imgScale, imgX and
\* imgY as they were
C15_DegenerateFitSkipped ==
    [][(\/ RefitStep /\ (originalWidth = 0 \/ originalHeight = 0)
        \/ FitStep /\ (clientWidth = 0 \/ clientHeight = 0)) =>
           /\ UNCHANGED <<imgScale, imgX, imgY>>
           /\ Finite(imgScale') /\ Finite(imgX') /\ Finite(imgY')]_vars

\* the scale and offset that fit an image ow x oh into a container cw x ch
\* with `margin` pixels left free on every side
FitToContainer(cw, ch, ow, oh, margin) ==
    LET scale == MathMin(Div(Num(cw - 2 * margin), Num(ow)),
                         Div(Num(ch - 2 * margin), Num(oh)))
    IN [scale |-> scale,
        x |-> Div(Sub(Num(cw), Mul(Num(ow), scale)), Num(2)),
        y |-> Div(Sub(Num(ch), Mul(Num(oh), scale)), Num(2))]

\* the view after the step is the fit with that margin
FittedWith(margin) ==
    LET f == FitToContainer(clientWidth', clientHeight',
                            originalWidth', originalHeight', margin)
    IN imgScale' = f.scale /\ imgX' = f.x /\ imgY' = f.y

\* a 200 x 100 image in a 400 x 400 container
Example200x100 ==
    /\ originalWidth = 200 /\ originalHeight = 100
    /\ clientWidth = 400 /\ clientHeight = 400

\* C16 as stated: a fit of a loaded image sets scale and offset to the fit
\* with margin 20; a 200x100 image in a 400x400 container gets scale 1.8
\* and offset (20, 110)
C16_FitResult ==
    [][(FitStep /\ originalWidth' > 0 /\ originalHeight' > 0) =>
          /\ FittedWith(20)
          /\ Example200x100' =>
                imgScale' = Ratio(18, 10) /\ imgX' = Num(20) /\ imgY' = Num(110)]_vars

\* C16 as amended: a fit of a loaded image sets scale and offset to the fit
\* with margin 10 (20 pixels taken off each container dimension); a 200x100
\* image in a 400x400 container gets scale 1.9 and offset (10, 105)
C16_FitResultMargin10 ==
    [][(FitStep /\ originalWidth' > 0 /\ originalHeight' > 0) =>
          /\ FittedWith(10)
          /\ Example200x100' =>
                imgScale' = Ratio(19, 10) /\ imgX' = Num(10) /\ imgY' = Num(105)]_vars

\* the 200x100 image has just been fitted into the 400x400 container
C16_Witness ==
    /\ Example200x100
    /\ last.op \in {"load", "reset", "center"}
    /\ zooms = 0
    /\ imgScale = Ratio(19, 10)

\* the image-space coordinate under container coordinate p for offset o and
\* scale k
ScreenToImage(p, o, k) == Div(Sub(Num(p), o), k)

\* C17: a wheel zoom at (x, y) from a view with scale >= 0.1 (and finite
\* offsets) leaves the image-space point under (x, y) where it was, also
\* when the new scale is clamped to 0.1
C17_ZoomAnchored ==
    [][\A d \in WheelDeltas, x \in PointerXs, y \in PointerYs :
          (/\ Wheel(FALSE, d, x, y)
           /\ img # NoImg
           /\ LessEq(Ratio(1, 10), imgScale)
           /\ Finite(imgX) /\ Finite(imgY)) =>
              /\ ScreenToImage(x, imgX', imgScale') = ScreenToImage(x, imgX, imgScale)
              /\ ScreenToImage(y, imgY', imgScale') = ScreenToImage(y, imgY, imgScale)]_vars

\* the first zoom after a fit at scale 0.15 has just been clamped to 0.1,
\* and the image has moved from where the fit put it
C17_Witness ==
    /\ last.op = "wheel"
    /\ img # NoImg
    /\ ~resizePending
    /\ zooms = 1
    /\ AdjustInitialPositionAndScale(Self, clientWidth, clientHeight).imgScale = Ratio(3, 20)
    /\ imgScale = Ratio(1, 10)
    /\ imgX # AdjustInitialPositionAndScale(Self, clientWidth, clientHeight).imgX

\* C18: a wheel event with ctrl changes only the brush width, which stays a
\* number >= 1, and leaves view, overlay and history alone; a wheel event
\* without ctrl and without an image changes nothing; the view changes by a
\* wheel event only without ctrl and with an image
C18_WheelDispatch ==
    [][\A d \in WheelDeltas :
          /\ Wheel(TRUE, d, Cell \div 2, Cell) =>
                /\ UNCHANGED <<imgScale, imgX, imgY, canvas, history, historyIndex>>
                /\ LessEq(Num(1), scribbleWidth'.val)
          /\ (Wheel(FALSE, d, Cell \div 2, Cell) /\ img = NoImg) => Self' = Self
          /\ (Wheel(FALSE, d, Cell \div 2, Cell) /\ <<imgScale, imgX, imgY>>' # <<imgScale, imgX, imgY>>)
                => img # NoImg]_vars

\* C19: a width constructed as fixed keeps its initial value
C19_FixedWidthImmutable ==
    scribbleWidthFixed => scribbleWidth = [str |-> FALSE, val |-> Num(DefaultWidth)]

\* the length of the line the traced gesture has covered so far
ErasedLength == lastErasePoint - dabs[1].n \div dabs[1].d

\* |a - b| <= c
Within(a, b, c) == LessEq(Sub(a, b), c) /\ LessEq(Sub(b, a), c)

\* C20: during an erase gesture along a straight line of length L with dab
\* diameter D the number of stamped dabs is ceil(L / (D/4)) up to +-1, no
\* two consecutive dab centres are more than D/4 apart, and the last one is
\* no more than D/4 from the pointer
C20_EraserCoverage ==
    (drawing /\ dabs # << >>) =>
        LET quarter == Ratio(EraserSize, 4)
            expected == CeilDiv(4 * ErasedLength, EraserSize)
        IN /\ Len(dabs) \in (expected - 1)..(expected + 1)
           /\ \A i \in 1..(Len(dabs) - 1) : Within(dabs[i + 1], dabs[i], quarter)
           /\ Within(Num(lastErasePoint), dabs[Len(dabs)], quarter)

\* a step in which handleDraw renders the stroke of the brush
DrawStep ==
    /\ currentTool = "brush"
    /\ \E x \in PointerCols : StrokeDown(x) \/ PointerMove(x)

\* after the step the context clears at full opacity and every pixel on the
\* path is transparent
PathCleared ==
    /\ ctx'.gco = "destination-out"
    /\ ctx'.globalAlpha = Num(1)
    /\ \A i \in 1..Len(canvas'.px) :
          Col(canvas', i) \in PathCols(tempDrawPoints', canvas'.w) => canvas'.px[i] = 0

\* C21 as stated: with the brush selected and scribbleAlpha <= 0 every
\* rendering of a stroke composites with 'destination-out' at opacity 1 and
\* leaves the pixels on the path transparent, whatever the colour, the
\* softness and the operations before
C21_AlphaZeroErases ==
    [][(DrawStep /\ scribbleAlpha <= 0) => PathCleared]_vars

\* C21, outside mask mode: with the brush selected, mask mode off and
\* scribbleAlpha <= 0 every rendering of a stroke composites with
\* 'destination-out' at opacity 1 and leaves the pixels on the path
\* transparent, whatever the colour, the softness and the operations before
C21_AlphaZeroErasesUnmasked ==
    [][(DrawStep /\ ~mask /\ scribbleAlpha <= 0) => PathCleared]_vars

\* a brush gesture at alpha 0, with softness and another colour set, has
\* cleared a pixel that was painted when it began
C21_Witness ==
    /\ ~mask
    /\ drawing
    /\ currentTool = "brush"
    /\ ~eraseChanged
    /\ scribbleAlpha = 0
    /\ scribbleSoftness > 0
    /\ scribbleColor # "#000000"
    /\ \E i \in 1..Len(canvas.px) : tempDrawBackground.px[i] > 0 /\ canvas.px[i] = 0

\* a step in which handleErase stamps its dabs
EraseStep ==
    /\ currentTool = "eraser"
    /\ \E x \in PointerCols : StrokeDown(x) \/ PointerDown(x) \/ PointerMove(x)

\* C28: every dab of the eraser leaves the pixels it covers fully
\* transparent, whatever brush strokes with whatever alpha and softness came
\* before
C28_EraserClearsFully ==
    [][EraseStep =>
        \A i \in 1..Len(canvas'.px) :
            Col(canvas', i) \in DabCols(lastErasePoint', lastErasePoint', canvas'.w)
                => canvas'.px[i] = 0]_vars

\* a step that starts a decode, or in which a decode fails
DecodePendingStep ==
    \/ \E v \in BackgroundPayloads \ {<< >>} : UploadBase64(v)
    \/ \E v \in OverlayPayloads \ {<< >>} : UploadBase64DrawingCanvas(v)
    \/ \E i \in 1..MaxPending : ImageFailed(i) \/ OverlayFailed(i)

\* C22: a load with a non-empty payload changes none of img, originalWidth,
\* originalHeight, the overlay, imgScale, imgX, imgY, history, historyIndex
\* and the two fields before onload runs, and a decode that fails leaves
\* them as they were
C22_FailedDecodeUntouched ==
    [][DecodePendingStep =>
        UNCHANGED <<img, originalWidth, originalHeight, canvas, imgScale, imgX,
                    imgY, history, historyIndex, bg, fg>>]_vars

\* a payload that cannot be decoded is in flight for the background and one
\* for the overlay, on a widget that holds an image
C22_Witness ==
    /\ img # NoImg
    /\ historyIndex >= 0
    /\ pending # << >> /\ ~Decodable(pending[1])
    /\ pendingFg # << >> /\ ~Decodable(pendingFg[1])

\* C25: the overlay surface is as large as the loaded background image, and
\* 1 x 1 while no image is loaded
C25_OverlayDimensions ==
    IF img = NoImg
    THEN canvas.w = 1 /\ canvas.h = 1
    ELSE canvas.w = Decode(img).w /\ canvas.h = Decode(img).h

\* the step took exactly one snapshot, of the overlay as it now is
OneSnapshot ==
    /\ historyIndex' = historyIndex + 1
    /\ history' = Append(SubSeq(history, 1, historyIndex + 1), canvas')

\* C29: when an overlay payload has been decoded the overlay holds exactly
\* the decoded image on a cleared surface and one snapshot of it is taken,
\* whatever compositing mode and opacity earlier gestures left on the
\* context; an empty payload clears the overlay and takes one snapshot
C29_OverlayReplaced ==
    [][/\ \A i \in 1..Len(pendingFg) :
            OverlayLoaded(i) =>
                /\ canvas' = DrawImage(ClearRect(canvas), Decode(pendingFg[i]),
                                       "source-over", Num(1))
                /\ OneSnapshot
       /\ UploadBase64DrawingCanvas(<< >>) =>
            /\ canvas' = ClearRect(canvas)
            /\ OneSnapshot]_vars

\* C23: a key press changes the history index or the overlay of a widget
\* only if the widget has the focus or the pointer is over it
C23_ShortcutScope ==
    [][((\E c \in BOOLEAN, k \in Keys : KeyDown(c, k))
        /\ (historyIndex' # historyIndex \/ canvas' # canvas))
           => (focused \/ pointerInsideContainer)]_vars

\* a step of one of the ways a file or a request for one can reach the widget
AcquisitionStep ==
    \/ \E f \in Files : InputChange(f) \/ Drop(f) \/ Paste(f)
    \/ UploadButtonClick
    \/ \E x \in PointerXs, y \in PointerYs : ContainerPrimaryPointerDown(x, y)
    \/ \E x \in PointerCols : StrokeDown(x)

\* C24: with noUpload no file-input change, upload-button click, drop, paste
\* or primary pointerdown changes the background image, starts a decode or
\* opens the file dialog; with uploads allowed and no image a primary
\* pointerdown on the container opens the file dialog and sets none of
\* dragging, drawing and resizing
C24_UploadGating ==
    [][/\ (AcquisitionStep /\ noUpload) =>
            (picker' = FALSE /\ UNCHANGED <<img, originalWidth, originalHeight, bg, pending>>)
       /\ ((\E x \in PointerXs, y \in PointerYs : ContainerPrimaryPointerDown(x, y))
            /\ ~noUpload /\ img = NoImg) =>
               (picker' /\ UNCHANGED <<dragging, drawing, resizing>>)]_vars

\* a primary pointerdown on the empty container has just asked for a file
C24_Witness ==
    /\ last.op = "containerdown"
    /\ ~noUpload
    /\ img = NoImg
    /\ picker
    /\ ~dragging /\ ~drawing /\ ~resizing

\* C26: the progress bar element is removed and atEnd is invoked at most
\* once, and exactly once as soon as the socket has errored or closed
C26_EndsExactlyOnce ==
    /\ task.atEnd <= 1
    /\ task.removed <= 1
    /\ (task.errors + task.closes > 0) => (task.atEnd = 1 /\ task.removed = 1)

\* messages, an error and a close have all arrived, the close twice or the
\* error twice among them, and atEnd ran once
C26_Witness ==
    /\ task.received > 0
    /\ task.errors > 0
    /\ task.closes > 0
    /\ task.errors + task.closes > 2
    /\ task.atEnd = 1

\* C27: every progress message received for a task that was given an
\* onProgress callback results in one onProgress call with that message
C27_OnProgressEveryMessage ==
    [][\A res \in Messages, late \in BOOLEAN :
          (WsMessage(res, late) /\ task.hasOnProgress) =>
              (task'.onProgress = task.onProgress + 1 /\ task'.delivered = res)]_vars

\* C30: lastErasePoint is unset whenever drawing is false, and the pointerdown
\* that begins an erase gesture stamps one dab, at the pointer's position
C30_LastErasePointCleared ==
    /\ [](~drawing => lastErasePoint = NoPoint)
    /\ [][\A x \in ErasePositions :
             PointerDownFine(x) => (dabs' = <<Num(x)>> /\ lastErasePoint' = x)]_vars

\* an erase gesture has ended with a snapshot and the next one has just
\* stamped its first dab
C30_Witness ==
    /\ last.op = "down"
    /\ drawing
    /\ historyIndex >= 1
    /\ Len(dabs) = 1
    /\ dabs[1] = Num(lastErasePoint)

\* a step of an image drag: the secondary pointerdown inside the image, a
\* move while dragging, the pointerup or the pointerleave that ends it
DragStep ==
    \/ dragging' /\ \E x \in PointerXs, y \in PointerYs : ContainerPointerDown(x, y)
    \/ dragging /\ \E x \in PointerXs, y \in PointerYs : ContainerPointerMove(x, y)
    \/ dragging /\ ContainerPointerUp
    \/ dragging /\ ContainerPointerLeave

C32_GuardReleased ==
    /\ ~bg.syncLock
    /\ ~fg.syncLock

\* C33: when two loads were issued and both decodes have succeeded and run
\* their onload, the background image, the dimensions of the overlay and the
\* background field are those of the second
C33_LastLoadWins ==
    (/\ Len(issued) = 2
     /\ Decodable(issued[1])
     /\ Decodable(issued[2])
     /\ pending = << >>) =>
        /\ img = issued[2]
        /\ canvas.w = Decode(issued[2]).w
        /\ canvas.h = Decode(issued[2]).h
        /\ bg.target = ToDataURL(Decode(issued[2]))

\* C34: once removeProgressBar has done its cleanup the gallery has no
\* live-preview element of the call, and the element never holds more than
\* two images
C34_CleanupComplete ==
    /\ task.removed > 0 => ~task.inGallery
    /\ task.images <= 2

====
